---- MODULE Spec2Model ----
(***************************************************************************)
(* Wallet ledger and transaction settlement of the zippy-vtu backend.      *)
(*                                                                         *)
(* The committed store (users.wallet_balance, the transactions table, the  *)
(* referrals table) is shared by every request handler.  A handler is cut  *)
(* into steps at the awaits between which another handler can observe or   *)
(* change the store: a non-locking SELECT, an autocommit statement, or a   *)
(* whole beginTransaction..commit unit (InnoDB shows none of a unit's      *)
(* writes before its commit).  Calls to the payment gateway and to the     *)
(* fulfillment provider are inputs chosen with \E.                          *)
(*                                                                         *)
(* Amounts are in naira and are chosen so that every fee is a whole        *)
(* number.                                                                 *)
(***************************************************************************)
EXTENDS Integers, Sequences, FiniteSets, TLC

VARIABLES
    balance,      \* users.wallet_balance, committed value, per user id
    txs,          \* the transactions table: row id -> row (AUTO_INCREMENT order)
    applied,      \* history: per row id, balance mutations committed on its behalf
    referrals,    \* the referrals table: <<referrer, referred>> -> status
    req,          \* handler slot -> the locals and position of the request it runs
    nreq,         \* number of requests received so far
    last,         \* the request answered last: its inputs and its response
    initialized,  \* references the payment gateway has initialised
    fails,        \* store failures raised so far
    leaked        \* pooled connections taken and never released

vars == <<balance, txs, applied, referrals, req, nreq, last, initialized, fails, leaked>>

-----------------------------------------------------------------------------
(* Bounds of the model *)

MaxReq == 3
MaxInFlight == 2
MaxStoreFailures == 1

-----------------------------------------------------------------------------
(* The population *)

Users == {1, 2}
Referrer == 1
Referred == 2

\* The accounts of the users table: the users that send requests and one
\* account that no purchase, funding or transfer names.  It registered with
\* the Referrer's code and the INSERT INTO referrals that follows the INSERT
\* INTO users failed, so it has a referred_by and no referral row; the one
\* request it sends is the one for its referral reward.
Bystander == 3
Accounts == Users \cup {Bystander}

Amounts == {500}
GrossAmounts == {1000, 4000}

\* What the provider's requery can answer in content.transactions.status;
\* "none" stands for a response without that field.
ProviderStatuses == {"delivered", "pending", "initiated", "failed", "none"}

\* What the gateway can answer in data.status.
GatewayStatuses == {"success", "failed", "abandoned"}

-----------------------------------------------------------------------------
(* References *)

Ref(b, s) == [base |-> b, sfx |-> s]
NullRef == Ref(0, "NULL")
SeedRef == Ref(0, "")

\* ZP_<Date.now()>_<random>, the request id YYYYMMDDHHII<random>: a fresh
\* string per request, here the number of the request.
NewRef == Ref(nreq + 1, "")

-----------------------------------------------------------------------------
(* Rows *)

Row(u, t, a, ref, st) == [user |-> u, type |-> t, amount |-> a, ref |-> ref, status |-> st]

RowIds == 1 .. Len(txs)

\* A row is a credit when it funds the wallet or is the credit leg of a transfer.
IsCredit(row) ==
    \/ row.type = "wallet_fund"
    \/ row.type = "p2p_transfer" /\ row.ref.sfx = "_CREDIT"

RECURSIVE SignedSum(_, _, _)
SignedSum(t, u, n) ==
    IF n = 0 THEN 0
    ELSE SignedSum(t, u, n - 1) +
         ( IF t[n].user = u /\ t[n].status = "success"
           THEN IF IsCredit(t[n]) THEN t[n].amount ELSE 0 - t[n].amount
           ELSE 0 )

\* Rows selected by reference and status.
PendingByRef(ref) == {i \in RowIds : txs[i].ref = ref /\ txs[i].status = "pending"}

RowsByRef(ref) == {i \in RowIds : txs[i].ref = ref}

-----------------------------------------------------------------------------
(* Requests *)

Slots == 1 .. MaxInFlight

NoReq ==
    [op |-> "none", pc |-> "idle", user |-> 0, amount |-> 0, ref |-> NullRef,
     gw |-> "", tx |-> 0, cur |-> 0, to |-> 0, email |-> "", event |-> "",
     ftype |-> "", fstatus |-> "", limit |-> 0, rows |-> {}, total |-> 0]

\* What is kept of an answered request: the handler's locals, what the
\* collaborators answered (ps: provider status, called: the provider's /pay was
\* invoked, dbError: a store statement threw) and the response.
Answer(q, ps, called, dbError, resp) ==
    [op |-> q.op, user |-> q.user, amount |-> q.amount, ref |-> q.ref, gw |-> q.gw,
     tx |-> q.tx, cur |-> q.cur, to |-> q.to, email |-> q.email, event |-> q.event,
     ftype |-> q.ftype, fstatus |-> q.fstatus, limit |-> q.limit, rows |-> q.rows,
     total |-> q.total,
     ps |-> ps, called |-> called, dbError |-> dbError, resp |-> resp]

NoAnswer == Answer(NoReq, "", FALSE, FALSE, "")

InFlightOf(q) == {p \in Slots : q[p].pc # "idle"}

InFlight == InFlightOf(req)

Quiescent == InFlight = {}

\* A new request is accepted by the first free handler slot while the bounds
\* allow.
CanStart(p) ==
    /\ nreq < MaxReq
    /\ req[p].pc = "idle"
    /\ \A o \in Slots : o < p => req[o].pc # "idle"

\* Whether one more store failure may be raised.
MayFail == fails < MaxStoreFailures

-----------------------------------------------------------------------------
(* The store's transactions *)

\* Statement k of a beginTransaction..commit unit that failed at statement
\* failAt (0: no statement failed and the commit ran) takes effect only when
\* the unit committed.
Survives_Autocommit(k, failAt) == failAt = 0 \/ k < failAt

Survives(k, failAt) == failAt = 0

FailPoints(n) == {0} \cup (IF MayFail THEN 1 .. n ELSE {})

\* UPDATE users SET wallet_balance = wallet_balance - ? WHERE id = ?
Debit_Nothing(b, u, a) == b

Debit(b, u, a) == [b EXCEPT ![u] = @ - a]

\* UPDATE users SET wallet_balance = wallet_balance + ? WHERE id = ?
Credit_Nothing(b, u, a) == b

Credit(b, u, a) == [b EXCEPT ![u] = @ + a]

-----------------------------------------------------------------------------
(* Initial state: user 1 has funded the wallet once (gross 1000, net 985),  *)
(* user 2 registered with user 1's referral code.                          *)

\* The funding fee schedule.
FeeThreshold == 2500
FeePermille == 15
FlatFee == 100

\* fee = amount * 0.015 below the threshold, amount * 0.015 + 100 from it on.
Fee_FlatAlways(amount) == (amount * FeePermille) \div 1000 + FlatFee

Fee(amount) ==
    IF amount < FeeThreshold
    THEN (amount * FeePermille) \div 1000
    ELSE (amount * FeePermille) \div 1000 + FlatFee

AmountToCredit(amount) == amount - Fee(amount)

SeedNet == AmountToCredit(1000)

Init ==
    /\ balance = [u \in Accounts |-> IF u = Referrer THEN SeedNet ELSE 0]
    /\ txs = <<Row(Referrer, "wallet_fund", SeedNet, SeedRef, "success")>>
    /\ applied = <<1>>
    /\ referrals = [p \in {<<Referrer, Referred>>} |-> "pending"]
    /\ req = [p \in Slots |-> NoReq]
    /\ nreq = 0
    /\ last = NoAnswer
    /\ initialized = {}
    /\ fails = 0
    /\ leaked = 0

\* The handler in slot p goes on with locals q.
Continue(p, q) ==
    /\ req' = [req EXCEPT ![p] = q]
    /\ last' = last

\* The handler in slot p, with locals q, answers and ends.
Reply(p, q, ps, called, dbError, resp) ==
    /\ req' = [req EXCEPT ![p] = NoReq]
    /\ last' = Answer(q, ps, called, dbError, resp)

-----------------------------------------------------------------------------
(* Airtime and data purchase *)

\* statusResponse?.content?.transactions?.status || "unknown"
TxStatusOf(s) == IF s = "none" THEN "unknown" ELSE s

\* The status written to the transaction row for a provider status.
Classify_InitiatedFails(txStatus) ==
    IF txStatus = "delivered" THEN "success"
    ELSE IF txStatus = "pending" THEN "pending"
    ELSE "failed"

Classify_PendingSettles(txStatus) ==
    IF txStatus = "delivered" \/ txStatus = "pending" THEN "success"
    ELSE IF txStatus = "initiated" THEN "pending"
    ELSE "failed"

Classify(txStatus) ==
    IF txStatus = "delivered" THEN "success"
    ELSE IF txStatus = "pending" \/ txStatus = "initiated" THEN "pending"
    ELSE "failed"

\* The balance check that precedes the provider call.
Insufficient_Never(currentBalance, amount) == FALSE

Insufficient(currentBalance, amount) == currentBalance < amount

\* The balance read and the check.
PurchaseStart(p, kind, u, a) ==
    /\ CanStart(p)
    /\ nreq' = nreq + 1
    /\ LET q == [NoReq EXCEPT !.op = kind, !.user = u, !.amount = a,
                              !.ref = NewRef, !.cur = balance[u]]
       IN  IF Insufficient(q.cur, a)
           THEN Reply(p, q, "", FALSE, FALSE, "400:insufficient")
           ELSE Continue(p, [q EXCEPT !.pc = "pay"])
    /\ UNCHANGED <<balance, txs, applied, referrals, initialized, fails, leaked>>

\* The provider's /pay threw: the catch answers 500 with
\* error: error.response?.data || error.message (the provider's error payload
\* or the exception's message); nothing is written.
PurchasePayThrows(p) ==
    /\ req[p].pc = "pay"
    /\ Reply(p, req[p], "", TRUE, FALSE, "500:raw_error")
    /\ UNCHANGED <<balance, txs, applied, referrals, nreq, initialized, fails, leaked>>

\* /pay answered and the immediate /requery threw: the inner catch answers
\* 500 'Unable to confirm transaction status' and returns before the
\* classification, so no statement reaches the store.
PurchaseRequeryThrows_RecordsPending(p) ==
    /\ req[p].pc = "pay"
    /\ txs' = Append(txs, Row(req[p].user, req[p].op, req[p].amount, req[p].ref, "pending"))
    /\ applied' = Append(applied, 0)
    /\ Reply(p, req[p], "", TRUE, FALSE, "500:unconfirmed")
    /\ UNCHANGED <<balance, referrals, nreq, initialized, fails, leaked>>

PurchaseRequeryThrows(p) ==
    /\ req[p].pc = "pay"
    /\ Reply(p, req[p], "", TRUE, FALSE, "500:unconfirmed")
    /\ UNCHANGED <<balance, txs, applied, referrals, nreq, initialized, fails, leaked>>

\* /pay and /requery answered, requery status delivered: the unit
\* getConnection(1), beginTransaction(2), UPDATE users(3), INSERT(4),
\* commit(5).  A failure is logged and the success payload is sent; the
\* connection is neither rolled back nor released.
PurchaseDelivered(p, s, failAt) ==
    /\ req[p].pc = "pay"
    /\ Classify(TxStatusOf(s)) = "success"
    /\ failAt \in FailPoints(5)
    /\ LET u == req[p].user
           a == req[p].amount
       IN  /\ balance' = IF Survives(3, failAt) THEN Debit(balance, u, a) ELSE balance
           /\ txs' = IF Survives(4, failAt)
                     THEN Append(txs, Row(u, req[p].op, a, req[p].ref, "success"))
                     ELSE txs
           /\ applied' = IF Survives(4, failAt)
                         THEN Append(applied, IF Survives(3, failAt) THEN 1 ELSE 0)
                         ELSE applied
    /\ fails' = IF failAt = 0 THEN fails ELSE fails + 1
    /\ leaked' = IF failAt >= 2 THEN leaked + 1 ELSE leaked
    /\ Reply(p, req[p], s, TRUE, failAt # 0, "200:success")
    /\ UNCHANGED <<referrals, nreq, initialized>>

\* Requery status pending, initiated or anything else: one autocommit INSERT
\* of a pending or failed row, no debit.  A failed INSERT is logged only.
PurchaseNotDelivered(p, s, insertFails) ==
    /\ req[p].pc = "pay"
    /\ Classify(TxStatusOf(s)) # "success"
    /\ insertFails \in {FALSE} \cup (IF MayFail THEN {TRUE} ELSE {})
    /\ LET st == Classify(TxStatusOf(s))
       IN  /\ txs' = IF insertFails THEN txs
                     ELSE Append(txs, Row(req[p].user, req[p].op, req[p].amount, req[p].ref, st))
           /\ applied' = IF insertFails THEN applied ELSE Append(applied, 0)
           /\ Reply(p, req[p], s, TRUE, insertFails, "200:" \o st)
    /\ fails' = IF insertFails THEN fails + 1 ELSE fails
    /\ UNCHANGED <<balance, referrals, nreq, initialized, leaked>>

\* Bill payment: the provider's /pay is called and its answer (a bill that
\* was delivered or one that failed) returned, or the call threw; the handler
\* reads and writes nothing in the store.
BillAnswers == {"delivered", "failed", "throws"}

Bills(p, u, a, s) ==
    /\ CanStart(p)
    /\ s \in BillAnswers
    /\ nreq' = nreq + 1
    /\ Reply(p, [NoReq EXCEPT !.op = "bills", !.user = u, !.amount = a, !.ref = NewRef],
             IF s = "throws" THEN "" ELSE s, TRUE, FALSE,
             IF s = "throws" THEN "500:raw_error" ELSE "200:provider")
    /\ UNCHANGED <<balance, txs, applied, referrals, initialized, fails, leaked>>

-----------------------------------------------------------------------------
(* Transaction status requery *)

\* The request ids a client can send: the references of the purchase rows.
\* The handler reads nothing from the store, so any other request id is
\* answered the same way.
RequeryRefs == {txs[i].ref : i \in {j \in RowIds : txs[j].type \in {"airtime", "data"}}}

\* The request is validated and the provider's /requery is awaited.  The
\* caller is authenticated and its id is not used.
RequeryStart(p, ref) ==
    /\ CanStart(p)
    /\ ref \in RequeryRefs
    /\ nreq' = nreq + 1
    /\ Continue(p, [NoReq EXCEPT !.op = "requery", !.pc = "requery", !.ref = ref])
    /\ UNCHANGED <<balance, txs, applied, referrals, initialized, fails, leaked>>

\* The provider answered status s, or the call threw: the provider's answer
\* is returned as it is, or 500; the store is neither read nor written.
RequeryAnswer(p, s) ==
    /\ req[p].pc = "requery"
    /\ s \in ProviderStatuses \cup {"throws"}
    /\ Reply(p, req[p], IF s = "throws" THEN "" ELSE s, FALSE, FALSE,
             IF s = "throws" THEN "500:raw_error" ELSE "200:provider")
    /\ UNCHANGED <<balance, txs, applied, referrals, nreq, initialized, fails, leaked>>

-----------------------------------------------------------------------------
(* Wallet funding: initiate, verify, webhook *)

\* The INSERT of the pending row is reached only when the gateway's
\* initialize returned with data.status true and the statement is accepted.
FundInserts_Always(outcome) == TRUE

FundInserts(outcome) == outcome = "ok"

\* Initiate-funding.  The gateway's initialize throws, answers status false,
\* or succeeds; only then is the pending row of the net amount inserted.
Fund(p, u, g, outcome) ==
    /\ CanStart(p)
    /\ outcome \in {"throws", "false", "ok"} \cup (IF MayFail THEN {"insertFails"} ELSE {})
    /\ nreq' = nreq + 1
    /\ initialized' = IF outcome \in {"ok", "insertFails"}
                      THEN initialized \cup {NewRef} ELSE initialized
    /\ txs' = IF FundInserts(outcome)
              THEN Append(txs, Row(u, "wallet_fund", AmountToCredit(g), NewRef, "pending"))
              ELSE txs
    /\ applied' = IF FundInserts(outcome) THEN Append(applied, 0) ELSE applied
    /\ fails' = IF outcome = "insertFails" THEN fails + 1 ELSE fails
    /\ Reply(p, [NoReq EXCEPT !.op = "fund", !.user = u, !.amount = g, !.ref = NewRef],
             "", FALSE, outcome = "insertFails",
             CASE outcome = "ok" -> "200:initialized"
               [] outcome = "false" -> "400:init_failed"
               [] OTHER -> "500:error")
    /\ UNCHANGED <<balance, referrals, leaked>>

\* SELECT id, user_id, amount FROM transactions WHERE reference = ? AND status = 'pending'
FindPending_AnyStatus(ref) == RowsByRef(ref)

FindPending(ref) == PendingByRef(ref)

\* The row status written for a gateway status that is not success.
VerifyFailStatus(status) == IF status = "abandoned" THEN "cancelled" ELSE "failed"

WebhookFailStatus(status) == IF status = "abandoned" THEN "cancelled" ELSE "failed"

\* The status column is ENUM('pending', 'success', 'failed').  A value outside
\* the enumeration is refused in strict SQL mode and stored as the empty
\* string otherwise.
StatusEnum == {"pending", "success", "failed"}

\* Verify-funding, up to the lookup of the pending row.  gw is what the
\* gateway's verify did: threw, answered status false, or answered a status.
VerifyStart(p, caller, ref, gw) ==
    /\ CanStart(p)
    /\ ref \in initialized
    /\ gw \in GatewayStatuses \cup {"throws", "false"}
    /\ nreq' = nreq + 1
    /\ LET q == [NoReq EXCEPT !.op = "verify", !.user = caller, !.ref = ref, !.gw = gw]
       IN  IF gw = "throws" THEN Reply(p, q, "", FALSE, FALSE, "500:verification_failed")
           ELSE IF gw = "false" THEN Reply(p, q, "", FALSE, FALSE, "400:verification_failed")
           ELSE IF FindPending(ref) = {} THEN Reply(p, q, "", FALSE, FALSE, "404:not_found")
           ELSE Continue(p, [q EXCEPT !.pc = "mark",
                                      !.tx = CHOOSE i \in FindPending(ref) : TRUE])
    /\ UNCHANGED <<balance, txs, applied, referrals, initialized, fails, leaked>>

\* event === 'charge.success'
IsChargeSuccess_Always(event) == TRUE

IsChargeSuccess(event) == event = "charge.success"

\* The webhook, up to the lookup of the pending row.  It is not authenticated.
WebhookStart(p, event, ref, status) ==
    /\ CanStart(p)
    /\ ref \in initialized
    /\ event \in {"charge.success", "other"}
    /\ status \in GatewayStatuses
    /\ nreq' = nreq + 1
    /\ LET q == [NoReq EXCEPT !.op = "webhook", !.ref = ref, !.gw = status,
                              !.event = event]
       IN  IF ~IsChargeSuccess(event) THEN Reply(p, q, "", FALSE, FALSE, "200:ack")
           ELSE IF FindPending(ref) = {} THEN Reply(p, q, "", FALSE, FALSE, "404:not_found")
           ELSE Continue(p, [q EXCEPT !.pc = "mark",
                                      !.tx = CHOOSE i \in FindPending(ref) : TRUE])
    /\ UNCHANGED <<balance, txs, applied, referrals, initialized, fails, leaked>>

\* UPDATE transactions SET status = ? WHERE id = ?, one autocommit statement.
\* how: "ok", "fails" (the statement throws), or, for a value outside the
\* column's enumeration, "strict" (refused) or "lax" (stored as '').
MarkStep(p, op, how, newStatus, failResp, endResp) ==
    /\ req[p].pc = "mark"
    /\ req[p].op = op
    /\ how \in (IF newStatus \in StatusEnum THEN {"ok"} ELSE {"strict", "lax"})
               \cup (IF MayFail THEN {"fails"} ELSE {})
    /\ txs' = CASE how = "ok" -> [txs EXCEPT ![req[p].tx].status = newStatus]
                [] how = "lax" -> [txs EXCEPT ![req[p].tx].status = ""]
                [] OTHER -> txs
    /\ fails' = IF how = "fails" THEN fails + 1 ELSE fails
    /\ IF how \in {"fails", "strict"} THEN Reply(p, req[p], "", FALSE, TRUE, failResp)
       ELSE IF newStatus = "success" THEN Continue(p, [req[p] EXCEPT !.pc = "credit"])
       ELSE Reply(p, req[p], "", FALSE, FALSE, endResp)
    /\ UNCHANGED <<balance, applied, referrals, nreq, initialized, leaked>>

\* The id bound to WHERE id = ? of the credit: transaction.user_id, the owner
\* of the row found; verify's req.user.id is not read after the middleware.
CreditedUser_Caller(row, caller) == IF caller \in Accounts THEN caller ELSE row.user

CreditedUser(row, caller) == row.user

\* UPDATE users SET wallet_balance = wallet_balance + ? WHERE id = ?, with the
\* amount and owner read from the row, one autocommit statement.
CreditStep(p, op, stmtFails, failResp, endResp) ==
    /\ req[p].pc = "credit"
    /\ req[p].op = op
    /\ stmtFails \in {FALSE} \cup (IF MayFail THEN {TRUE} ELSE {})
    /\ LET row == txs[req[p].tx]
       IN  /\ balance' = IF stmtFails THEN balance
                         ELSE Credit(balance, CreditedUser(row, req[p].user), row.amount)
           /\ applied' = IF stmtFails THEN applied
                         ELSE [applied EXCEPT ![req[p].tx] = @ + 1]
    /\ fails' = IF stmtFails THEN fails + 1 ELSE fails
    /\ IF stmtFails THEN Reply(p, req[p], "", FALSE, TRUE, failResp)
       ELSE Reply(p, req[p], "", FALSE, FALSE, endResp)
    /\ UNCHANGED <<txs, referrals, nreq, initialized, leaked>>

VerifyMark(p, how) ==
    MarkStep(p, "verify", how,
             IF req[p].gw = "success" THEN "success" ELSE VerifyFailStatus(req[p].gw),
             "500:verification_failed", "400:payment_" \o req[p].gw)

VerifyCredit(p, stmtFails) ==
    CreditStep(p, "verify", stmtFails, "500:verification_failed", "200:funded")

WebhookMark(p, how) ==
    MarkStep(p, "webhook", how,
             IF req[p].gw = "success" THEN "success" ELSE WebhookFailStatus(req[p].gw),
             "500:webhook_failed", "200:ack")

WebhookCredit(p, stmtFails) ==
    CreditStep(p, "webhook", stmtFails, "500:webhook_failed", "200:ack")

-----------------------------------------------------------------------------
(* POST /wallet/transaction *)

TxnTypes == {"airtime", "bill"}

TxnStart(p, u, type, a) ==
    /\ CanStart(p)
    /\ type \in TxnTypes
    /\ nreq' = nreq + 1
    /\ LET q == [NoReq EXCEPT !.op = "transaction:" \o type, !.user = u, !.amount = a,
                              !.ref = NewRef, !.cur = balance[u]]
       IN  IF Insufficient(q.cur, a)
           THEN Reply(p, q, "", FALSE, FALSE, "400:insufficient")
           ELSE Continue(p, [q EXCEPT !.pc = "unit"])
    /\ UNCHANGED <<balance, txs, applied, referrals, initialized, fails, leaked>>

TxnType(op) ==
    CASE op = "transaction:airtime" -> "airtime"
      [] op = "transaction:data" -> "data"
      [] OTHER -> "bill"

\* getConnection(1), beginTransaction(2), then in try/catch/finally UPDATE
\* users(3), INSERT(4), commit(5); the catch rolls back, the finally releases.
\* After the commit the new row is read back and its details parsed; when that
\* throws (readBackThrows) the answer is 500 although the unit committed.
TxnUnit(p, failAt, readBackThrows) ==
    /\ req[p].pc = "unit"
    /\ req[p].op \in {"transaction:airtime", "transaction:data", "transaction:bill"}
    /\ failAt \in FailPoints(5)
    /\ readBackThrows \in BOOLEAN
    /\ failAt # 0 => ~readBackThrows
    /\ LET u == req[p].user
           a == req[p].amount
       IN  /\ balance' = IF Survives(3, failAt) THEN Debit(balance, u, a) ELSE balance
           /\ txs' = IF Survives(4, failAt)
                     THEN Append(txs, Row(u, TxnType(req[p].op), a, req[p].ref, "success"))
                     ELSE txs
           /\ applied' = IF Survives(4, failAt)
                         THEN Append(applied, IF Survives(3, failAt) THEN 1 ELSE 0)
                         ELSE applied
    /\ fails' = IF failAt = 0 THEN fails ELSE fails + 1
    /\ leaked' = IF failAt = 2 THEN leaked + 1 ELSE leaked
    /\ Reply(p, req[p], "", FALSE, failAt # 0,
             IF failAt = 0 /\ ~readBackThrows THEN "200:processed" ELSE "500:error")
    /\ UNCHANGED <<referrals, nreq, initialized>>

-----------------------------------------------------------------------------
(* Peer transfer *)

Emails == {"one@x", "two@x", "nobody@x"}

EmailOf(u) == IF u = 1 THEN "one@x" ELSE "two@x"

\* SELECT id, full_name FROM users WHERE email = ?
UsersByEmail(e) == {u \in Users : EmailOf(u) = e}

\* sender[0].email === recipient_email
SelfTransfer_Never(senderEmail, recipientEmail) == FALSE

SelfTransfer(senderEmail, recipientEmail) == senderEmail = recipientEmail

TransferStart(p, sender, email, a) ==
    /\ CanStart(p)
    /\ email \in Emails
    /\ nreq' = nreq + 1
    /\ LET q == [NoReq EXCEPT !.op = "transfer", !.user = sender, !.amount = a,
                              !.ref = NewRef, !.email = email]
       IN  IF SelfTransfer(EmailOf(sender), email)
           THEN Reply(p, q, "", FALSE, FALSE, "400:self")
           ELSE IF UsersByEmail(email) = {}
           THEN Reply(p, q, "", FALSE, FALSE, "404:recipient")
           ELSE IF Insufficient(balance[sender], a)
           THEN Reply(p, [q EXCEPT !.cur = balance[sender]], "", FALSE, FALSE,
                      "400:insufficient")
           ELSE Continue(p, [q EXCEPT !.pc = "unit", !.cur = balance[sender],
                                      !.to = CHOOSE u \in UsersByEmail(email) : TRUE])
    /\ UNCHANGED <<balance, txs, applied, referrals, initialized, fails, leaked>>

\* getConnection(1), beginTransaction(2), then in try/catch/finally UPDATE
\* sender(3), UPDATE recipient(4), INSERT debit leg(5), INSERT credit leg(6),
\* commit(7); the catch rolls back, the finally releases.
TransferUnit(p, failAt) ==
    /\ req[p].pc = "unit"
    /\ req[p].op = "transfer"
    /\ failAt \in FailPoints(7)
    /\ LET s == req[p].user
           t == req[p].to
           a == req[p].amount
           b1 == IF Survives(3, failAt) THEN Debit(balance, s, a) ELSE balance
           t1 == IF Survives(5, failAt)
                 THEN Append(txs, Row(s, "p2p_transfer", a,
                                      Ref(req[p].ref.base, "_DEBIT"), "success"))
                 ELSE txs
           a1 == IF Survives(5, failAt)
                 THEN Append(applied, IF Survives(3, failAt) THEN 1 ELSE 0)
                 ELSE applied
       IN  /\ balance' = IF Survives(4, failAt) THEN Credit(b1, t, a) ELSE b1
           /\ txs' = IF Survives(6, failAt)
                     THEN Append(t1, Row(t, "p2p_transfer", a,
                                         Ref(req[p].ref.base, "_CREDIT"), "success"))
                     ELSE t1
           /\ applied' = IF Survives(6, failAt)
                         THEN Append(a1, IF Survives(4, failAt) THEN 1 ELSE 0)
                         ELSE a1
    /\ fails' = IF failAt = 0 THEN fails ELSE fails + 1
    /\ leaked' = IF failAt = 2 THEN leaked + 1 ELSE leaked
    /\ Reply(p, req[p], "", FALSE, failAt # 0,
             IF failAt = 0 THEN "200:transferred" ELSE "500:transfer_failed")
    /\ UNCHANGED <<referrals, nreq, initialized>>

-----------------------------------------------------------------------------
(* Referral reward *)

RewardAmount == 200

\* users.referred_by resolved to the referrer's id (0: not referred).
ReferrerOf(u) == IF u \in {Referred, Bystander} THEN Referrer ELSE 0

\* SELECT id, status FROM referrals WHERE referrer_id = ? AND referred_id = ?
ExistingReferral_AnyOfReferrer(referrer, u) ==
    {pair \in DOMAIN referrals : pair[1] = referrer}

ExistingReferral(referrer, u) ==
    {pair \in DOMAIN referrals : pair[1] = referrer /\ pair[2] = u}

\* UPDATE referrals SET status = 'paid' WHERE id = ?
FlipStatus_Toggle(status) == IF status = "paid" THEN "pending" ELSE "paid"

FlipStatus(status) == "paid"

\* existingReferral[0].status === 'paid'
AlreadyPaid_Never(status) == FALSE

AlreadyPaid(status) == status = "paid"

RewardStart(p, u) ==
    /\ CanStart(p)
    /\ nreq' = nreq + 1
    /\ LET q == [NoReq EXCEPT !.op = "reward", !.user = u, !.to = ReferrerOf(u)]
       IN  IF ReferrerOf(u) = 0
           THEN Reply(p, q, "", FALSE, FALSE, "200:no_referral")
           ELSE IF ExistingReferral(ReferrerOf(u), u) = {}
           THEN Reply(p, q, "", FALSE, FALSE, "400:referral_not_found")
           ELSE LET found == CHOOSE pair \in ExistingReferral(ReferrerOf(u), u) : TRUE
                IN  IF AlreadyPaid(referrals[found])
                    THEN Reply(p, q, "", FALSE, FALSE, "200:already_processed")
                    ELSE Continue(p, [q EXCEPT !.pc = "unit", !.tx = found[2]])
    /\ UNCHANGED <<balance, txs, applied, referrals, initialized, fails, leaked>>

\* getConnection(1), beginTransaction(2), then in try/catch/finally UPDATE
\* referrals(3), UPDATE users(4), INSERT without a reference(5), commit(6).
\* The request's tx names the referral row found at the start (the referred
\* user of its pair).
RewardUnit(p, failAt) ==
    /\ req[p].pc = "unit"
    /\ req[p].op = "reward"
    /\ failAt \in FailPoints(6)
    /\ LET t == req[p].to
       IN  /\ referrals' = IF Survives(3, failAt)
                           THEN [referrals EXCEPT ![<<t, req[p].tx>>] = FlipStatus(@)]
                           ELSE referrals
           /\ balance' = IF Survives(4, failAt) THEN Credit(balance, t, RewardAmount)
                         ELSE balance
           /\ txs' = IF Survives(5, failAt)
                     THEN Append(txs, Row(t, "wallet_fund", RewardAmount, NullRef, "success"))
                     ELSE txs
           /\ applied' = IF Survives(5, failAt)
                         THEN Append(applied, IF Survives(4, failAt) THEN 1 ELSE 0)
                         ELSE applied
    /\ fails' = IF failAt = 0 THEN fails ELSE fails + 1
    /\ leaked' = IF failAt = 2 THEN leaked + 1 ELSE leaked
    /\ Reply(p, req[p], "", FALSE, failAt # 0,
             IF failAt = 0 THEN "200:rewarded" ELSE "500:error")
    /\ UNCHANGED <<nreq, initialized>>

-----------------------------------------------------------------------------
(* Reading the log: GET /transactions and GET /transactions/:id *)

\* user_id = ?, bound to the authenticated caller's id.
OwnedBy_Anyone(row, caller) == TRUE

OwnedBy(row, caller) == row.user = caller

\* The type and status of the query string; an absent one or 'all' adds no
\* condition.  The page is the first, of the default size or of one row.
TypeFilters == {"all", "p2p_transfer"}
StatusFilters == {"all", "success"}
Limits == {1, 20}

\* The queries the clients send: the default one, and the successful
\* transfers one row a page.
ListQueries == {<<"all", "all", 20>>, <<"p2p_transfer", "success", 1>>}

\* WHERE user_id = ? [AND type = ?] [AND status = ?] over the log t.
Matching(t, caller, ftype, fstatus) ==
    {i \in 1 .. Len(t) : /\ OwnedBy(t[i], caller)
                         /\ ftype # "all" => t[i].type = ftype
                         /\ fstatus # "all" => t[i].status = fstatus}

\* ORDER BY created_at DESC LIMIT limit OFFSET offset; rows are created in
\* the order of their ids.
PageOf(S, limit, offset) ==
    {i \in S : LET newer == Cardinality({j \in S : j > i})
               IN  newer >= offset /\ newer < offset + limit}

\* The columns returned for a row.
Listed(t, i) ==
    [id |-> i, type |-> t[i].type, amount |-> t[i].amount, status |-> t[i].status,
     ref |-> t[i].ref]

ListTransactions(t, caller, ftype, fstatus, limit, offset) ==
    {Listed(t, i) : i \in PageOf(Matching(t, caller, ftype, fstatus), limit, offset)}

\* SELECT COUNT(*) as total FROM transactions with the same conditions.
CountTransactions(t, caller, ftype, fstatus) ==
    Cardinality(Matching(t, caller, ftype, fstatus))

\* SELECT * FROM transactions WHERE id = ? AND user_id = ?
GetTransaction(t, caller, id) ==
    {Listed(t, i) : i \in {j \in 1 .. Len(t) : j = id /\ OwnedBy(t[j], caller)}}

\* The list, up to the page query (page 1: offset 0).
ListStart(p, u, ftype, fstatus, limit) ==
    /\ CanStart(p)
    /\ nreq' = nreq + 1
    /\ Continue(p, [NoReq EXCEPT !.op = "list", !.pc = "count", !.user = u,
                                 !.ftype = ftype, !.fstatus = fstatus, !.limit = limit,
                                 !.rows = ListTransactions(txs, u, ftype, fstatus, limit, 0)])
    /\ UNCHANGED <<balance, txs, applied, referrals, initialized, fails, leaked>>

\* The count query and the answer.  The details column is of type JSON: a
\* driver that returns it parsed makes JSON.parse throw on the first row of
\* the page, and the catch answers 500.
ListCount(p, parseThrows) ==
    /\ req[p].pc = "count"
    /\ req[p].op = "list"
    /\ parseThrows \in BOOLEAN
    /\ parseThrows => req[p].rows # {}
    /\ IF parseThrows
       THEN Reply(p, [req[p] EXCEPT !.rows = {}], "", FALSE, FALSE, "500:error")
       ELSE Reply(p, [req[p] EXCEPT !.total = CountTransactions(txs, req[p].user,
                                                  req[p].ftype, req[p].fstatus)],
                  "", FALSE, FALSE, "200:list")
    /\ UNCHANGED <<balance, txs, applied, referrals, nreq, initialized, fails, leaked>>

\* Get by id: an id of the log or the one after its last.
GetById(p, u, id, parseThrows) ==
    /\ CanStart(p)
    /\ id \in 1 .. Len(txs) + 1
    /\ parseThrows \in BOOLEAN
    /\ parseThrows => GetTransaction(txs, u, id) # {}
    /\ nreq' = nreq + 1
    /\ LET q == [NoReq EXCEPT !.op = "get", !.user = u, !.tx = id]
       IN  IF GetTransaction(txs, u, id) = {}
           THEN Reply(p, q, "", FALSE, FALSE, "404:not_found")
           ELSE IF parseThrows THEN Reply(p, q, "", FALSE, FALSE, "500:error")
           ELSE Reply(p, [q EXCEPT !.rows = GetTransaction(txs, u, id)],
                      "", FALSE, FALSE, "200:found")
    /\ UNCHANGED <<balance, txs, applied, referrals, initialized, fails, leaked>>

-----------------------------------------------------------------------------
(* Specifications *)

\* The handlers that debit: airtime, data, bills, /wallet/transaction.
DebitNext ==
    \/ \E p \in Slots, k \in {"airtime", "data"}, u \in Users, a \in Amounts :
            PurchaseStart(p, k, u, a)
    \/ \E p \in Slots : PurchasePayThrows(p)
    \/ \E p \in Slots : PurchaseRequeryThrows(p)
    \/ \E p \in Slots, s \in ProviderStatuses, f \in 0 .. 5 : PurchaseDelivered(p, s, f)
    \/ \E p \in Slots, s \in ProviderStatuses, f \in BOOLEAN : PurchaseNotDelivered(p, s, f)
    \/ \E p \in Slots, u \in Users, a \in Amounts, s \in BillAnswers : Bills(p, u, a, s)
    \/ \E p \in Slots, u \in Users, t \in TxnTypes, a \in Amounts : TxnStart(p, u, t, a)
    \/ \E p \in Slots, f \in 0 .. 5, b \in BOOLEAN : TxnUnit(p, f, b)

\* The handlers of wallet funding: fund, verify, the gateway's webhook.
FundingNext ==
    \/ \E p \in Slots, u \in Users, g \in GrossAmounts,
          o \in {"throws", "false", "ok", "insertFails"} : Fund(p, u, g, o)
    \/ \E p \in Slots, u \in Users, ref \in initialized,
          g \in GatewayStatuses \cup {"throws", "false"} : VerifyStart(p, u, ref, g)
    \/ \E p \in Slots, h \in {"ok", "fails", "strict", "lax"} : VerifyMark(p, h)
    \/ \E p \in Slots, f \in BOOLEAN : VerifyCredit(p, f)
    \/ \E p \in Slots, e \in {"charge.success", "other"}, ref \in initialized,
          g \in GatewayStatuses : WebhookStart(p, e, ref, g)
    \/ \E p \in Slots, h \in {"ok", "fails", "strict", "lax"} : WebhookMark(p, h)
    \/ \E p \in Slots, f \in BOOLEAN : WebhookCredit(p, f)

\* Peer transfer and referral reward.
MoveNext ==
    \/ \E p \in Slots, u \in Users, e \in Emails, a \in Amounts : TransferStart(p, u, e, a)
    \/ \E p \in Slots, f \in 0 .. 7 : TransferUnit(p, f)
    \/ \E p \in Slots, u \in Accounts : RewardStart(p, u)
    \/ \E p \in Slots, f \in 0 .. 6 : RewardUnit(p, f)

\* The status requery.
ReconcileNext ==
    \/ \E p \in Slots, ref \in RequeryRefs : RequeryStart(p, ref)
    \/ \E p \in Slots, s \in ProviderStatuses \cup {"throws"} : RequeryAnswer(p, s)

\* The reads of the log.  They write nothing, so the specifications of the
\* writers leave them out; ReadSpec composes them with the transfers and
\* rewards, which write rows of both users.
ReadNext ==
    \/ \E p \in Slots, u \in Users, q \in ListQueries : ListStart(p, u, q[1], q[2], q[3])
    \/ \E p \in Slots, b \in BOOLEAN : ListCount(p, b)
    \/ \E p \in Slots, u \in Users, id \in 1 .. Len(txs) + 1, b \in BOOLEAN :
            GetById(p, u, id, b)

Next == DebitNext \/ ReconcileNext \/ FundingNext \/ MoveNext

\* Every handler, requests overlapping.
Spec == Init /\ [][Next]_vars

\* One request at a time: a request is received only after the previous one
\* was answered.
OneAtATime == Cardinality(InFlightOf(req')) <= 1

SeqNext == Next /\ OneAtATime

SeqSpec == Init /\ [][SeqNext]_vars

\* The debiting handlers alone, requests overlapping.
DebitSpec == Init /\ [][DebitNext]_vars

DebitSeqNext == DebitNext /\ OneAtATime

DebitSeqSpec == Init /\ [][DebitSeqNext]_vars

\* The debiting handlers and the status requery, requests overlapping.
ReconcileSpec == Init /\ [][DebitNext \/ ReconcileNext]_vars

\* Peer transfer and referral reward alone, requests overlapping, and one at
\* a time.
MoveSpec == Init /\ [][MoveNext]_vars

MoveSeqNext == MoveNext /\ OneAtATime

MoveSeqSpec == Init /\ [][MoveSeqNext]_vars

\* The reads with the transfers and rewards, requests overlapping.
ReadSpec == Init /\ [][MoveNext \/ ReadNext]_vars

\* The funding handlers alone, requests overlapping, and one at a time.
FundingSpec == Init /\ [][FundingNext]_vars

FundingSeqNext == FundingNext /\ OneAtATime

FundingSeqSpec == Init /\ [][FundingSeqNext]_vars

-----------------------------------------------------------------------------
(* Properties *)

Purchases == {"airtime", "data"}

\* The rows written for the request answered last.
LastRows == RowsByRef(last.ref)

\* C1: once every request has been answered, each user's balance equals the
\* sum of the amounts of the user's success credit rows minus the sum of the
\* amounts of the user's success debit rows.
C1_BalanceIsSignedSum ==
    Quiescent => \A u \in Users : balance[u] = SignedSum(txs, u, Len(txs))

\* C2: with overlapping debit requests of one user, no balance is ever
\* negative.
C2_NoOverdraft == \A u \in Users : balance[u] >= 0

\* C3: with Verify-funding (or the webhook) called one call after the other,
\* a funding reference has exactly one row and its balance increment is
\* applied at most once; a call answered as funded has applied it exactly
\* once, and a call answered not-found met a row that was no longer pending.
C3_SequentialCreditOnce ==
    /\ \A i \in RowIds :
          txs[i].type = "wallet_fund" /\ txs[i].ref # NullRef =>
              /\ Cardinality(RowsByRef(txs[i].ref)) = 1
              /\ applied[i] <= 1
    /\ last.op = "verify" /\ last.resp = "200:funded" =>
          \A i \in LastRows : txs[i].status = "success" /\ applied[i] = 1
    /\ last.op \in {"verify", "webhook"} /\ last.resp = "404:not_found" =>
          \A i \in LastRows : txs[i].status # "pending"

\* C3 witness: a Verify-funding with gateway status success was answered
\* not-found for a reference whose row is success and was credited once.
C3_Witness ==
    /\ last.op = "verify" /\ last.gw = "success" /\ last.resp = "404:not_found"
    /\ \E i \in LastRows : txs[i].status = "success" /\ applied[i] = 1

\* C4: with Verify-funding and the webhook overlapping on one pending
\* reference, the owner's balance is incremented at most once for it.
C4_ConcurrentCreditOnce == \A i \in RowIds : applied[i] <= 1

\* C5: once every request has been answered, a funding row is success exactly
\* when its amount was added to the owner's balance.
C5_SuccessIffCredited ==
    Quiescent =>
        \A i \in RowIds :
            txs[i].type = "wallet_fund" =>
                (txs[i].status = "success" <=> applied[i] = 1)

\* C6: a purchase (airtime, data or bill) requested with a balance below the
\* amount is answered insufficient-funds without calling the provider and
\* without writing a row.
C6_NoProviderCallWhenInsufficient ==
    /\ last.op \in Purchases \cup {"bills"}
    /\ (IF last.op = "bills" THEN balance[last.user] ELSE last.cur) < last.amount
    => /\ ~last.called
       /\ last.resp = "400:insufficient"
       /\ LastRows = {}

\* C7: an airtime or data purchase of amount a by a user with balance b >= a
\* whose requery status is delivered, the store accepting the unit, ends with
\* balance b - a and exactly one row for the request, success, of amount a.
C7_DeliveredDebitsOnce ==
    last.op \in Purchases /\ last.ps = "delivered" /\ ~last.dbError =>
        /\ last.cur >= last.amount
        /\ balance[last.user] = last.cur - last.amount
        /\ Cardinality(LastRows) = 1
        /\ \A i \in LastRows :
              txs[i] = Row(last.user, last.op, last.amount, last.ref, "success")

\* C7 witness: a delivered purchase of 500 answered with the balance at 485.
C7_Witness ==
    /\ last.op \in Purchases /\ last.ps = "delivered" /\ ~last.dbError
    /\ last.cur = SeedNet /\ last.amount = 500
    /\ balance[last.user] = 485
    /\ LastRows # {}

\* C8: the step that answers a delivered airtime or data purchase either
\* commits the decrement of the amount together with the success row, or,
\* when a statement of the unit failed, changes no balance and adds no row.
C8_SettlementAtomic ==
    [][ (last' # last /\ last'.op \in Purchases /\ last'.ps = "delivered") =>
          \/ /\ ~last'.dbError
             /\ balance' = [balance EXCEPT ![last'.user] = @ - last'.amount]
             /\ txs' = Append(txs, Row(last'.user, last'.op, last'.amount,
                                       last'.ref, "success"))
          \/ /\ last'.dbError
             /\ balance' = balance
             /\ txs' = txs ]_vars

\* C8 witness: a delivered purchase whose unit failed was answered, with the
\* balance as it was read and no row for the request.
C8_Witness ==
    /\ last.op \in Purchases /\ last.ps = "delivered" /\ last.dbError
    /\ balance[last.user] = last.cur
    /\ LastRows = {}

\* C9: the step that answers an airtime or data purchase whose requery status
\* is not delivered changes no balance; when the store accepts the insert it
\* adds one row of the requested amount, pending for the statuses pending
\* and initiated and failed for any other.
C9_NotDeliveredNoDebit ==
    [][ (last' # last /\ last'.op \in Purchases /\ last'.called
            /\ last'.ps # "" /\ last'.ps # "delivered") =>
          /\ balance' = balance
          /\ \/ last'.dbError /\ txs' = txs
             \/ /\ ~last'.dbError
                /\ txs' = Append(txs,
                      Row(last'.user, last'.op, last'.amount, last'.ref,
                          IF last'.ps \in {"pending", "initiated"}
                          THEN "pending" ELSE "failed")) ]_vars

\* C9 witness: an initiated purchase was answered with a pending row and the
\* balance as it was read.
C9_Witness ==
    /\ last.op \in Purchases /\ last.ps = "initiated" /\ ~last.dbError
    /\ balance[last.user] = last.cur
    /\ \E i \in LastRows : txs[i].status = "pending" /\ txs[i].amount = last.amount

\* C10: the requery status of an answered purchase decides the row's status:
\* delivered gives success, pending and initiated give pending, every other
\* value and a missing status give failed; the response carries the same.
C10_Outcome(ps) ==
    IF ps = "delivered" THEN "success"
    ELSE IF ps \in {"pending", "initiated"} THEN "pending"
    ELSE "failed"

C10_StatusClassified ==
    last.op \in Purchases /\ last.ps # "" =>
        /\ last.resp = "200:" \o C10_Outcome(last.ps)
        /\ ~last.dbError =>
              /\ Cardinality(LastRows) = 1
              /\ \A i \in LastRows : txs[i].status = C10_Outcome(last.ps)

\* C10 witness: a requery answer without a status was recorded as failed.
C10_Witness ==
    /\ last.op \in Purchases /\ last.ps = "none" /\ ~last.dbError
    /\ \E i \in LastRows : txs[i].status = "failed"

\* C11: an airtime or data purchase whose provider purchase call threw (a
\* timeout, no response) leaves one pending row of the requested amount for
\* the request, and is not answered as rejected.
C11_TimeoutRecordedPending ==
    last.op \in Purchases /\ last.called /\ last.resp = "500:raw_error" =>
        /\ Cardinality(LastRows) = 1
        /\ \A i \in LastRows :
              txs[i].status = "pending" /\ txs[i].amount = last.amount

\* C12: the step that answers a requery for the reference of a pending
\* purchase row makes the row success and decrements the owner's balance by
\* the row's amount when the provider status is delivered, and makes the row
\* failed with every balance unchanged when the provider status is failed.
C12_RequerySettlesPending ==
    [][ (last' # last /\ last'.op = "requery") =>
          \A i \in RowsByRef(last'.ref) :
              txs[i].status = "pending" =>
                  /\ last'.ps = "delivered" =>
                        /\ txs'[i].status = "success"
                        /\ balance' = [balance EXCEPT ![txs[i].user] = @ - txs[i].amount]
                  /\ last'.ps = "failed" =>
                        /\ txs'[i].status = "failed"
                        /\ balance' = balance ]_vars

\* C13: when a requery with provider status delivered is answered while
\* another requery for the same reference is still running, the row of that
\* reference has had its balance decrement applied exactly once.
C13_ConcurrentRequeryOnce ==
    [][ ( /\ last' # last /\ last'.op = "requery" /\ last'.ps = "delivered"
          /\ \E o \in Slots : req'[o].op = "requery" /\ req'[o].ref = last'.ref ) =>
          \A i \in RowsByRef(last'.ref) :
              txs[i].status \in {"pending", "success"} => applied'[i] = 1 ]_vars

\* C14: in every step, a row whose status changes was pending before the step
\* and is success, failed or cancelled after it; a row that is success,
\* failed or cancelled keeps its status.
C14_TerminalStatus == {"success", "failed", "cancelled"}

C14_StatusOnlyLeavesPending ==
    [][ \A i \in RowIds :
          txs'[i].status # txs[i].status =>
              /\ txs[i].status = "pending"
              /\ txs'[i].status \in C14_TerminalStatus ]_vars

\* The sum of the balances of the accounts in S.
RECURSIVE SumOver(_, _)
SumOver(b, S) ==
    IF S = {} THEN 0
    ELSE LET u == CHOOSE x \in S : TRUE IN b[u] + SumOver(b, S \ {u})

\* The rows written for the transfer of base reference r.
TransferRows(r) == {i \in RowIds : txs[i].type = "p2p_transfer" /\ txs[i].ref.base = r.base}

C16_Legs(t, r, sfx) ==
    {i \in 1 .. Len(t) : t[i].type = "p2p_transfer" /\ t[i].ref = Ref(r.base, sfx)}

C16_TransferAllOrNothing ==
    /\ [][ (last' # last /\ last'.op = "transfer") =>
             LET dec == balance'[last'.user] # balance[last'.user]
                 inc == last'.to # 0 /\ balance'[last'.to] # balance[last'.to]
                 dleg == C16_Legs(txs', last'.ref, "_DEBIT") # {}
                 cleg == C16_Legs(txs', last'.ref, "_CREDIT") # {}
             IN  /\ (dec <=> inc) /\ (inc <=> dleg) /\ (dleg <=> cleg)
                 /\ last'.dbError => ~dec /\ balance' = balance /\ txs' = txs
                 /\ last'.resp = "200:transferred" <=> dec ]_vars
    /\ [](\A i \in RowIds :
            txs[i].type = "p2p_transfer" =>
                /\ Cardinality(C16_Legs(txs, txs[i].ref, "_DEBIT")) = 1
                /\ Cardinality(C16_Legs(txs, txs[i].ref, "_CREDIT")) = 1)

\* C16 witness: a transfer whose unit failed was answered with the sender's
\* balance as it was read, the recipient's unchanged and no row of the
\* transfer.
C16_Witness ==
    /\ last.op = "transfer" /\ last.dbError /\ last.to # 0
    /\ balance[last.user] = last.cur /\ balance[last.to] = 0
    /\ TransferRows(last.ref) = {}

\* C17: a transfer that is answered as successful found at least its amount
\* in the sender's balance at the step that decrements it, and leaves the
\* sender's balance at zero or above.
C17_TransferNeverOverdraws ==
    [][ (last' # last /\ last'.op = "transfer" /\ last'.resp = "200:transferred") =>
          /\ balance[last'.user] >= last'.amount
          /\ balance'[last'.user] >= 0 ]_vars

\* The rows written for referral rewards: funding rows without a reference.
RewardRows == {i \in RowIds : txs[i].type = "wallet_fund" /\ txs[i].ref = NullRef}

\* C18: with process-reward called one call after the other, the store
\* accepting the unit, the call that finds the referral pending marks it
\* paid, adds the fixed reward to the referrer's balance and writes one
\* reward row; a call that finds it paid changes no balance, row or referral
\* and is answered success with the already-processed message; there is never
\* more than one reward row, and its increment was applied once.
C18_SequentialRewardOnce ==
    /\ [][ (last' # last /\ last'.op = "reward" /\ last'.to # 0 /\ ~last'.dbError
                /\ <<last'.to, last'.user>> \in DOMAIN referrals) =>
             LET pair == <<last'.to, last'.user>>
             IN  IF referrals[pair] = "pending"
                 THEN /\ last'.resp = "200:rewarded"
                      /\ referrals' = [referrals EXCEPT ![pair] = "paid"]
                      /\ balance' = [balance EXCEPT ![last'.to] = @ + RewardAmount]
                      /\ txs' = Append(txs, Row(last'.to, "wallet_fund", RewardAmount,
                                                NullRef, "success"))
                 ELSE /\ last'.resp = "200:already_processed"
                      /\ referrals' = referrals
                      /\ balance' = balance
                      /\ txs' = txs ]_vars
    /\ [](/\ Cardinality(RewardRows) <= 1
          /\ \A i \in RewardRows : applied[i] = 1)

\* C18 witness: a second process-reward was answered already-processed with
\* the referral paid, one reward row and the balances 200 above the seed.
C18_Witness ==
    /\ last.op = "reward" /\ last.resp = "200:already_processed"
    /\ referrals[<<last.to, last.user>>] = "paid"
    /\ Cardinality(RewardRows) = 1
    /\ SumOver(balance, Accounts) = SeedNet + RewardAmount

\* C19: with process-reward requests for one referred user overlapping, at
\* most one reward row is written and the balances hold at most one reward
\* more than the seed (transfers move money between accounts only).
C19_ConcurrentRewardOnce ==
    /\ Cardinality(RewardRows) <= 1
    /\ SumOver(balance, Accounts) <= SeedNet + RewardAmount

\* C20: the step that answers a process-reward whose unit ran either commits
\* the referral's flip to paid, the referrer's increment and the reward row
\* together, or, when a statement of the unit failed, leaves the referral as
\* it was, every balance unchanged and no reward row added.
C20_RewardAllOrNothing ==
    [][ (last' # last /\ last'.op = "reward"
            /\ last'.resp \in {"200:rewarded", "500:error"}) =>
          LET pair == <<last'.to, last'.user>>
          IN  \/ /\ ~last'.dbError
                 /\ referrals'[pair] = "paid"
                 /\ balance'[last'.to] = balance[last'.to] + RewardAmount
                 /\ Len(txs') = Len(txs) + 1
                 /\ Len(txs') \in {i \in 1 .. Len(txs') :
                                       txs'[i].type = "wallet_fund" /\ txs'[i].ref = NullRef}
              \/ /\ last'.dbError
                 /\ referrals' = referrals
                 /\ balance' = balance
                 /\ txs' = txs ]_vars

\* C20 witness: a process-reward whose unit failed was answered with the
\* referral pending, the referrer's balance at the seed and no reward row.
C20_Witness ==
    /\ last.op = "reward" /\ last.dbError
    /\ referrals[<<last.to, last.user>>] = "pending"
    /\ balance[last.to] = SeedNet
    /\ RewardRows = {}

\* C21: the step that answers an Initiate-funding of gross amount g as
\* initialised adds one pending wallet_fund row of amount g minus the fee,
\* the fee being 1.5% of g below 2500 and 1.5% of g plus 100 from 2500 on; no
\* step changes the amount of a row; and the step that answers a Verify-funding
\* as funded adds to the owner's balance exactly the amount stored in the row
\* of the reference, which is not the gross amount.
C21_Net(g) == IF g < 2500 THEN g - (g * 15) \div 1000 ELSE g - ((g * 15) \div 1000 + 100)

C21_NetAmountCredited ==
    /\ [][ (last' # last /\ last'.op = "fund" /\ last'.resp = "200:initialized") =>
             /\ txs' = Append(txs, Row(last'.user, "wallet_fund", C21_Net(last'.amount),
                                       last'.ref, "pending"))
             /\ balance' = balance ]_vars
    /\ [][ \A i \in RowIds : txs'[i].amount = txs[i].amount ]_vars
    /\ [][ (last' # last /\ last'.op = "verify" /\ last'.resp = "200:funded") =>
             LET row == txs[last'.tx]
             IN  /\ row.ref = last'.ref
                 /\ row.amount \in {C21_Net(g) : g \in GrossAmounts}
                 /\ row.amount \notin GrossAmounts
                 /\ balance' = [balance EXCEPT ![row.user] = @ + row.amount] ]_vars

\* C21 witness: a funding of gross 4000 (fee 160) was verified and the
\* owner's balance rose by 3840.
C21_Witness ==
    /\ last.op = "verify" /\ last.resp = "200:funded"
    /\ last.tx \in RowIds /\ txs[last.tx].amount = 3840
    /\ balance[txs[last.tx].user] \in {3840, SeedNet + 3840}

\* C22 as stated: an Initiate-funding of gross 1000 answered as initialised
\* leaves a pending row of amount 885 for its reference.
C22_Gross1000Stores885 ==
    last.op = "fund" /\ last.amount = 1000 /\ last.resp = "200:initialized" =>
        \A i \in LastRows : txs[i].amount = 885

\* C22 as amended: an Initiate-funding of gross 1000 answered as initialised
\* leaves one row of amount 985 for its reference (1000 minus 1.5% of 1000;
\* the flat 100 applies from 2500 on), and a Verify-funding answered as funded
\* for a row of that amount raises the owner's balance by 985, not by 1000.
C22_Gross1000Stores985 ==
    /\ [](last.op = "fund" /\ last.amount = 1000 /\ last.resp = "200:initialized" =>
            /\ Cardinality(LastRows) = 1
            /\ \A i \in LastRows : txs[i].amount = 985)
    /\ [][ (last' # last /\ last'.op = "verify" /\ last'.resp = "200:funded"
               /\ txs[last'.tx].amount = 985) =>
             /\ balance'[txs[last'.tx].user] = balance[txs[last'.tx].user] + 985
             /\ balance'[txs[last'.tx].user] # balance[txs[last'.tx].user] + 1000 ]_vars

\* C22 witness: a funding of gross 1000 by user 2 (balance 0) was verified
\* and user 2's balance is 985.
C22_Witness ==
    /\ last.op = "verify" /\ last.resp = "200:funded"
    /\ last.tx \in RowIds /\ txs[last.tx].amount = 985 /\ txs[last.tx].user = 2
    /\ balance[2] = 985

\* C23: the step that answers a Verify-funding or a webhook which found the
\* pending row and whose gateway status is not success, no store failure
\* having occurred, leaves the row cancelled when the gateway status is
\* abandoned and failed otherwise, and changes no balance.
C23_NonSuccessRecorded ==
    [][ ( /\ last' # last /\ last'.op \in {"verify", "webhook"}
          /\ last'.tx # 0 /\ last'.gw \in {"failed", "abandoned"}
          /\ fails' = 0 ) =>
          /\ txs'[last'.tx].status =
                 (IF last'.gw = "abandoned" THEN "cancelled" ELSE "failed")
          /\ balance' = balance ]_vars

C25_BillDebitAndFulfill ==
    [][ (last' # last /\ last'.op = "bills") =>
          /\ balance[last'.user] < last'.amount =>
                ~last'.called /\ last'.resp = "400:insufficient"
          /\ last'.ps = "delivered" =>
                /\ balance' = [balance EXCEPT ![last'.user] = @ - last'.amount]
                /\ txs' = Append(txs, Row(last'.user, "bill", last'.amount,
                                          last'.ref, "success")) ]_vars

\* C26: an airtime or data purchase that the provider delivered and whose
\* store unit failed is not answered as a success.
C26_StoreFailureSurfaced ==
    last.op \in Purchases /\ last.ps = "delivered" /\ last.dbError =>
        last.resp # "200:success"

\* C27: when no request is in flight, no pooled connection is held.
C27_ConnectionsReleased == Quiescent => leaked = 0

\* C28: every row carries a reference that is not null and that no other
\* row carries.
C28_ReferenceUniqueNonNull ==
    \A i \in RowIds :
        /\ txs[i].ref # NullRef
        /\ \A j \in RowIds : j # i => txs[j].ref # txs[i].ref

C30_TransferTypedRejections ==
    [][ (last' # last /\ last'.op = "transfer") =>
          /\ (\A u \in Users : EmailOf(u) # last'.email) =>
                /\ last'.resp = "404:recipient"
                /\ balance' = balance /\ txs' = txs
          /\ ( /\ \E u \in Users \ {last'.user} : EmailOf(u) = last'.email
               /\ last'.cur < last'.amount ) =>
                /\ last'.resp = "400:insufficient"
                /\ balance' = balance /\ txs' = txs ]_vars

\* C30 witness: user 2 (balance 0) sent a transfer of 500 to one@x and was
\* answered insufficient-funds, with both balances as they were.
C30_Witness ==
    /\ last.op = "transfer" /\ last.user = 2 /\ last.email = "one@x"
    /\ last.amount = 500 /\ last.resp = "400:insufficient"
    /\ balance[2] = 0 /\ balance[1] = SeedNet
    /\ TransferRows(last.ref) = {}

\* C31: the step that answers a process-reward of a caller who has a referrer
\* and no referral row for the pair (referrer, caller) answers 400 with the
\* referral-not-found message and changes no balance, referral or row.
C31_MissingReferralRejected ==
    [][ (last' # last /\ last'.op = "reward" /\ last'.to # 0
            /\ <<last'.to, last'.user>> \notin DOMAIN referrals) =>
          /\ last'.resp = "400:referral_not_found"
          /\ balance' = balance
          /\ referrals' = referrals
          /\ txs' = txs ]_vars

\* A referred caller without a referral row was answered not-found while the
\* referrer's other referral is still pending and unpaid.
C31_Witness ==
    /\ last.op = "reward" /\ last.user = Bystander /\ last.to = Referrer
    /\ <<Referrer, Bystander>> \notin DOMAIN referrals
    /\ last.resp = "400:referral_not_found"
    /\ referrals[<<Referrer, Referred>>] = "pending"
    /\ RewardRows = {}

C33_NoInternalDetail == last.resp # "500:raw_error"

\* C34: the step that answers a /wallet/transaction request that passed the
\* balance check (balance read >= amount) either takes the amount off the
\* caller's balance and adds one success row of that amount, both in one store
\* transaction, or, when a statement of the unit failed, leaves every balance
\* and the log as they were and answers a server error.
C34_TxnOps == {"transaction:airtime", "transaction:data", "transaction:bill"}

C34_TransactionAtomic ==
    [][ (last' # last /\ last'.op \in C34_TxnOps /\ last'.resp # "400:insufficient") =>
          /\ last'.cur >= last'.amount
          /\ \/ /\ ~last'.dbError
                /\ balance' = [balance EXCEPT ![last'.user] = @ - last'.amount]
                /\ \E t \in {"airtime", "data", "bill"} :
                      txs' = Append(txs, Row(last'.user, t, last'.amount,
                                             last'.ref, "success"))
             \/ /\ last'.dbError
                /\ balance' = balance
                /\ txs' = txs
                /\ last'.resp = "500:error" ]_vars

\* A /wallet/transaction whose unit failed was answered 500 with the balance
\* as it was read and no row for the request.
C34_Witness ==
    /\ last.op \in C34_TxnOps /\ last.dbError /\ last.resp = "500:error"
    /\ last.cur >= last.amount
    /\ balance[last.user] = last.cur
    /\ LastRows = {}

\* C35: the step that answers an airtime or data purchase whose immediate
\* requery threw after the provider had accepted the purchase call answers an
\* error, changes no balance and adds no row: the log holds nothing for the
\* request's reference.
C35_RequeryThrowsNoRecord ==
    [][ (last' # last /\ last'.op \in Purchases /\ last'.called /\ last'.ps = ""
            /\ last'.resp = "500:unconfirmed") =>
          /\ balance' = balance
          /\ txs' = txs
          /\ \A i \in 1 .. Len(txs') : txs'[i].ref # last'.ref ]_vars

\* A purchase was accepted by the provider, its requery threw, and the
\* answer is an error with the balance as read and no row for the reference.
C35_Witness ==
    /\ last.op \in Purchases /\ last.called /\ last.resp = "500:unconfirmed"
    /\ balance[last.user] = last.cur
    /\ LastRows = {}
    /\ PendingByRef(last.ref) = {}

\* C36: the step that answers a Verify-funding changes no balance but that of
\* the owner of the row of the reference, whoever the caller is; answered as
\* funded, it adds the row's amount to the owner's balance.
C36_VerifyCreditsOwner ==
    [][ (last' # last /\ last'.op = "verify") =>
          /\ \A a \in Accounts :
                balance'[a] # balance[a] =>
                    \E i \in RowIds : txs[i].ref = last'.ref /\ txs[i].user = a
          /\ last'.resp = "200:funded" =>
                \E i \in RowIds :
                    /\ txs[i].ref = last'.ref
                    /\ balance' = [balance EXCEPT ![txs[i].user] = @ + txs[i].amount] ]_vars

\* User 2 verified a reference of user 1 and was answered funded: user 2's
\* balance is still zero and user 1's has grown.
C36_Witness ==
    /\ last.op = "verify" /\ last.resp = "200:funded"
    /\ last.user = 2
    /\ \E i \in LastRows : txs[i].user = 1
    /\ balance[2] = 0
    /\ balance[1] > SeedNet

\* C37: the step that answers an Initiate-funding changes no balance; it adds
\* a row only for a reference the gateway accepted; and when the gateway's
\* initialize threw or answered a false status the log is unchanged and holds
\* no row for the generated reference.
C37_FundWritesAfterGateway ==
    [][ (last' # last /\ last'.op = "fund") =>
          /\ balance' = balance
          /\ txs' # txs => last'.ref \in initialized'
          /\ last'.ref \notin initialized' =>
                /\ txs' = txs
                /\ \A i \in 1 .. Len(txs') : txs'[i].ref # last'.ref
                /\ last'.resp \in {"400:init_failed", "500:error"} ]_vars

\* An Initiate-funding whose gateway call did not succeed was answered with
\* no row for its reference and the balances as seeded.
C37_Witness ==
    /\ last.op = "fund" /\ last.resp \in {"400:init_failed", "500:error"}
    /\ last.ref \notin initialized
    /\ LastRows = {}
    /\ balance[1] = SeedNet /\ balance[2] = 0

\* C38: the step that receives and answers a webhook notification changes no
\* row and no balance and answers success when the event is not
\* charge.success (no step answering such a notification changes anything),
\* and changes nothing and answers not-found when the event is charge.success
\* and no pending row has the reference.
C38_WebhookIgnoresOthers ==
    [][ (last' # last /\ last'.op = "webhook") =>
          /\ last'.event # "charge.success" =>
                /\ last'.resp = "200:ack"
                /\ txs' = txs
                /\ balance' = balance
          /\ (nreq' = nreq + 1 /\ last'.event = "charge.success"
                 /\ PendingByRef(last'.ref) = {}) =>
                /\ last'.resp = "404:not_found"
                /\ txs' = txs
                /\ balance' = balance ]_vars

\* A notification of another event arrived for a reference whose row is
\* pending and was acknowledged with the row still pending.
C38_Witness ==
    /\ last.op = "webhook" /\ last.event = "other" /\ last.resp = "200:ack"
    /\ PendingByRef(last.ref) # {}
    /\ balance[1] = SeedNet

\* A charge.success notification for a reference without a pending row was
\* answered not-found.
C38_WitnessNotFound ==
    /\ last.op = "webhook" /\ last.event = "charge.success"
    /\ last.resp = "404:not_found"
    /\ PendingByRef(last.ref) = {}

\* C39: the list and the get-by-id return only rows of the caller: every row
\* of an answer is owned by its caller; for every caller, filter and page the
\* results computed on the log equal those computed on the log with every
\* other user's row blanked (so two logs that agree on the caller's rows give
\* identical results); and a get-by-id for an id whose row is owned by
\* another user is answered not-found with no row.
C39_OthersErased(t, u) ==
    [i \in 1 .. Len(t) |-> IF t[i].user = u THEN t[i] ELSE Row(0, "", 0, NullRef, "")]

C39_OnlyOwnRows ==
    /\ last.op \in {"list", "get"} =>
          \A r \in last.rows : r.id \in RowIds /\ txs[r.id].user = last.user
    /\ \A u \in Users :
          /\ \A ft \in TypeFilters, fs \in StatusFilters :
                /\ \A l \in Limits :
                      ListTransactions(txs, u, ft, fs, l, 0)
                          = ListTransactions(C39_OthersErased(txs, u), u, ft, fs, l, 0)
                /\ CountTransactions(txs, u, ft, fs)
                       = CountTransactions(C39_OthersErased(txs, u), u, ft, fs)
          /\ \A id \in 1 .. Len(txs) + 1 :
                GetTransaction(txs, u, id) = GetTransaction(C39_OthersErased(txs, u), u, id)
    /\ (last.op = "get" /\ last.tx \in RowIds /\ txs[last.tx].user # last.user) =>
          last.resp = "404:not_found" /\ last.rows = {}

\* User 2 listed its transactions after a transfer from user 1 and was
\* answered its credit leg alone, the log holding rows of user 1 as well.
C39_Witness ==
    /\ last.op = "list" /\ last.user = 2 /\ last.resp = "200:list"
    /\ last.ftype = "all" /\ last.fstatus = "all"
    /\ Cardinality(last.rows) = 1 /\ last.total = 1
    /\ Cardinality({i \in RowIds : txs[i].user = 1}) >= 2

\* User 2 asked for the seed row of user 1 by its id and was answered
\* not-found.
C39_WitnessGet ==
    /\ last.op = "get" /\ last.user = 2 /\ last.tx = 1
    /\ txs[1].user = 1
    /\ last.resp = "404:not_found"

====
